---- MODULE Spec2Model ----
(***************************************************************************)
(* Model of projects/create_workato_folders.py: a sequential script that,  *)
(* for each name of a fixed list, runs `workato init`, merge-copies the    *)
(* recipes directory of that name (when it exists) and runs `workato push`,*)
(* then POSTs the folder to the platform API and prints the status code.   *)
(*                                                                         *)
(* The external collaborators (the CLI, the filesystem, the HTTP server)   *)
(* are the environment: every outcome they can have is a nondeterministic  *)
(* choice.  `trace` is the history of the calls the script has issued and  *)
(* of the lines it has printed, in the order they happened.                *)
(***************************************************************************)
EXTENDS Integers, Sequences, FiniteSets, TLC

\* ---------------------------------------------------------------- bounds
\* Relative paths of files inside a recipes / project directory: 1..MaxFiles
MaxFiles == 2
\* File contents: 1..MaxContent (0 stands for "no such file")
MaxContent == 2

Files == 1..MaxFiles
Contents == 1..MaxContent

\* ------------------------------------------------------ program constants
\* line 13: the list the loop iterates
folders == <<"Salesforce", "atomic-salesforce-recipes", "atomic-stripe-recipes", "orchestrator-recipes">>

FolderNames == {folders[p] : p \in DOMAIN folders}

\* Exit codes a subprocess can return (zero / non-zero)
ExitCodes == {0, 1}
\* Status codes the API can answer with: one 2xx, one 4xx, one 5xx
StatusCodes == {201, 409, 500}

\* ------------------------------------------------------------ filesystem
\* A directory: whether it exists, and the content of each file in it
\* (0 when the file is not there).
NoDir == [exists |-> FALSE, files |-> [f \in Files |-> 0]]
Dirs == {[exists |-> TRUE, files |-> fs] : fs \in [Files -> 0..MaxContent]}

\* A recipes directory as shipped: one recipe file
RecipeDir == [exists |-> TRUE, files |-> [f \in Files |-> IF f = 1 THEN 1 ELSE 0]]

VARIABLES
    pc,         \* the statement the script is about to execute
    i,          \* position of the loop variable `folder` in `folders`
    srcFs,      \* ../workato/<name> for each name
    cwdFs,      \* ./<name> for each name
    response,   \* status code of the last response (0: none yet)
    trace,      \* calls issued and lines printed so far
    exitStatus  \* <<>> while running, <<code>> once the process has exited

vars == <<pc, i, srcFs, cwdFs, response, trace, exitStatus>>

folder == folders[i]

\* One entry of the history
Call(op, name, outcome, res) ==
    [op |-> op, folder |-> name, outcome |-> outcome, res |-> res]

\* -------------------------------------------------------- pure operators
\* shutil.copytree(src, dst, dirs_exist_ok=True) restricted to the files in
\* `todo`: the destination directory is created when missing and every file
\* of the source is copied over the destination's file of the same name.
RECURSIVE CopyFiles(_, _, _)
CopyFiles(todo, src, dstFiles) ==
    IF todo = {} THEN dstFiles
    ELSE LET f == CHOOSE x \in todo : TRUE
             copied == IF src.files[f] # 0
                       THEN [dstFiles EXCEPT ![f] = src.files[f]]
                       ELSE dstFiles
         IN CopyFiles(todo \ {f}, src, copied)

\* replace-copy: the destination becomes the source
CopyTreeReplace(src, dst) ==
    [exists |-> TRUE, files |-> src.files]

CopyTree(src, dst) ==
    [exists |-> TRUE, files |-> CopyFiles(Files, src, dst.files)]

\* What a copy that raised leaves behind: nothing is undone; the files in
\* `done` were copied before the error was raised.
FailedCopyRollback(src, dst, made, done) ==
    NoDir

FailedCopy(src, dst, made, done) ==
    IF made
    THEN [exists |-> TRUE, files |-> CopyFiles(done, src, dst.files)]
    ELSE dst

SrcFiles(d) == {f \in Files : d.files[f] # 0}

\* `workato init` scaffolds ./<name> when it succeeds
Scaffold(dst, rc) ==
    IF rc = 0 THEN [dst EXCEPT !.exists = TRUE] ELSE dst

\* --------------------------------------------------- control-flow choices
\* line 22: the exit code is swallowed by `|| true` and the value of
\* os.system is discarded
AfterInitChecked(rc) == IF rc = 0 THEN "exists" ELSE "aborted"
AfterInitRetry(rc) == IF rc = 0 THEN "exists" ELSE "init"
AfterInit(rc) == "exists"

\* line 24
AfterExistsAlways(present) == "copy"
AfterExists(present) == IF present THEN "copy" ELSE "post"

\* line 27: the value of os.system is discarded
AfterPushChecked(rc) == IF rc = 0 THEN "post" ELSE "aborted"
AfterPush(rc) == "post"

\* lines 29-34: the status code is printed, never tested
AfterPostRaiseForStatus(status) == IF status < 300 THEN "report" ELSE "aborted"
AfterPost(status) == "report"

\* lines 29-33: an exception of requests.post is not caught
AfterPostRaisedSwallowed == "report"
AfterPostRaised == "aborted"

\* line 32: the name sent in the body
PostNameFirst(p) == folders[1]
PostName(p) == folders[p]

\* line 21: the loop ends after the last element
HasNextOffByOne(p) == p < Len(folders) - 1
HasNext(p) == p < Len(folders)

Exited(code) == <<code>>

\* ---------------------------------------------------------------- Init
\* The script starts in a working directory without project directories;
\* each name has a recipes directory under ../workato or has none.
Init ==
    /\ pc = "init"
    /\ i = 1
    /\ srcFs \in [FolderNames -> {NoDir, RecipeDir}]
    /\ cwdFs = [n \in FolderNames |-> NoDir]
    /\ response = 0
    /\ trace = <<>>
    /\ exitStatus = <<>>

\* ------------------------------------------------------------- actions
\* line 22: os.system('workato init ... --project-name {folder} ... || true')
InitProject ==
    /\ pc = "init"
    /\ \E rc \in ExitCodes :
        /\ trace' = Append(trace, Call("init", folder, "returned", rc))
        /\ cwdFs' = [cwdFs EXCEPT ![folder] = Scaffold(@, rc)]
        /\ pc' = AfterInit(rc)
        /\ exitStatus' = IF AfterInit(rc) = "aborted" THEN Exited(1) ELSE exitStatus
    /\ UNCHANGED <<i, srcFs, response>>

\* line 24: if os.path.exists(f'../workato/{folder}')
CheckExists ==
    /\ pc = "exists"
    /\ pc' = AfterExists(srcFs[folder].exists)
    /\ UNCHANGED <<i, srcFs, cwdFs, response, trace, exitStatus>>

\* line 25: shutil.copytree(..., dirs_exist_ok=True) returns
Copy ==
    /\ pc = "copy"
    /\ srcFs[folder].exists
    /\ cwdFs' = [cwdFs EXCEPT ![folder] = CopyTree(srcFs[folder], @)]
    /\ trace' = Append(trace, Call("copy", folder, "returned", 0))
    /\ pc' = "print_copied"
    /\ UNCHANGED <<i, srcFs, response, exitStatus>>

\* line 25: shutil.copytree raises (permission denied, disk full, source
\* vanished, ...); the exception is not caught and the process exits with 1
CopyRaise ==
    /\ pc = "copy"
    /\ \E made \in BOOLEAN :
       \E done \in SUBSET SrcFiles(srcFs[folder]) :
        /\ made \/ done = {}
        /\ made /\ srcFs[folder].exists /\ SrcFiles(srcFs[folder]) # {}
              => done # SrcFiles(srcFs[folder])
        /\ cwdFs' = [cwdFs EXCEPT ![folder] = FailedCopy(srcFs[folder], @, made, done)]
    /\ trace' = Append(trace, Call("copy", folder, "raised", 0))
    /\ pc' = "aborted"
    /\ exitStatus' = Exited(1)
    /\ UNCHANGED <<i, srcFs, response>>

\* line 26: print(f"Copied recipes to {folder}")
PrintCopied ==
    /\ pc = "print_copied"
    /\ trace' = Append(trace, Call("print_copied", folder, "returned", 0))
    /\ pc' = "push"
    /\ UNCHANGED <<i, srcFs, cwdFs, response, exitStatus>>

\* line 27: os.system(f'cd {folder} && workato push')
Push ==
    /\ pc = "push"
    /\ \E rc \in ExitCodes :
        /\ trace' = Append(trace, Call("push", folder, "returned", rc))
        /\ pc' = AfterPush(rc)
        /\ exitStatus' = IF AfterPush(rc) = "aborted" THEN Exited(1) ELSE exitStatus
    /\ UNCHANGED <<i, srcFs, cwdFs, response>>

\* lines 29-33: requests.post(...) returns a response
Post ==
    /\ pc = "post"
    /\ \E status \in StatusCodes :
        /\ trace' = Append(trace, Call("post", PostName(i), "returned", status))
        /\ response' = status
        /\ pc' = AfterPost(status)
        /\ exitStatus' = IF AfterPost(status) = "aborted" THEN Exited(1) ELSE exitStatus
    /\ UNCHANGED <<i, srcFs, cwdFs>>

\* lines 29-33: requests.post(...) raises (connection error, DNS failure,
\* malformed host); the exception is not caught and the process exits with 1
PostRaise ==
    /\ pc = "post"
    /\ trace' = Append(trace, Call("post", PostName(i), "raised", 0))
    /\ pc' = AfterPostRaised
    /\ exitStatus' = IF AfterPostRaised = "aborted" THEN Exited(1) ELSE exitStatus
    /\ UNCHANGED <<i, srcFs, cwdFs, response>>

\* line 34: print(f"Created {folder}: {response.status_code}"), then the
\* next iteration of the loop of line 21
ReportNext ==
    /\ pc = "report"
    /\ HasNext(i)
    /\ trace' = Append(trace, Call("report", folder, "returned", response))
    /\ i' = i + 1
    /\ pc' = "init"
    /\ UNCHANGED <<srcFs, cwdFs, response, exitStatus>>

\* line 34 for the last folder: the script ends and the process exits with 0
ReportLast ==
    /\ pc = "report"
    /\ ~HasNext(i)
    /\ trace' = Append(trace, Call("report", folder, "returned", response))
    /\ pc' = "done"
    /\ exitStatus' = Exited(0)
    /\ UNCHANGED <<i, srcFs, cwdFs, response>>

\* lines 22, 27, 29: a subprocess or the HTTP call never returns (no timeout
\* is configured); the script blocks in it forever
BlockingOp == [init |-> "init", push |-> "push", post |-> "post"]
Hang ==
    /\ pc \in {"init", "push", "post"}
    /\ trace' = Append(trace, Call(BlockingOp[pc], folder, "hung", 0))
    /\ pc' = "hung"
    /\ UNCHANGED <<i, srcFs, cwdFs, response, exitStatus>>

Next ==
    \/ InitProject
    \/ CheckExists
    \/ Copy
    \/ CopyRaise
    \/ PrintCopied
    \/ Push
    \/ Post
    \/ PostRaise
    \/ ReportNext
    \/ ReportLast
    \/ Hang

Spec == Init /\ [][Next]_vars

\* The script is sequential and every statement runs as soon as the one
\* before it has returned; a call that never returns is the step Hang.
LiveSpec == Init /\ [][Next]_vars /\ WF_vars(Next)

\* The folder of the loop is the only directory under test: ./<name> and
\* ../workato/<name> of the first folder hold any files at all, and the script
\* stands before the copytree of line 25 of the first iteration.
CopyInit ==
    /\ pc = "copy"
    /\ i = 1
    /\ \E src \in Dirs :
        srcFs = [n \in FolderNames |-> IF n = folders[1] THEN src ELSE NoDir]
    /\ \E rc \in ExitCodes :
        /\ trace = <<Call("init", folders[1], "returned", rc)>>
        /\ \E dst \in Dirs \cup {NoDir} :
            /\ rc = 0 => dst.exists
            /\ cwdFs = [n \in FolderNames |-> IF n = folders[1] THEN dst ELSE NoDir]
    /\ response = 0
    /\ exitStatus = <<>>

CopyNext ==
    \/ Copy
    \/ CopyRaise

CopySpec == CopyInit /\ [][CopyNext]_vars

\* ------------------------------------------------------------ vocabulary
Positions == DOMAIN folders

\* position of a name in the list (the names of line 13 are distinct)
PosOf(name) == CHOOSE p \in Positions : folders[p] = name

\* order of the statements inside one iteration
Rank(op) ==
    CASE op = "init" -> 1
      [] op = "copy" -> 2
      [] op = "print_copied" -> 3
      [] op = "push" -> 4
      [] op = "post" -> 5
      [] op = "report" -> 6

\* indices of the history entries of one kind for the folder at position p
Entries(op, p) ==
    {k \in DOMAIN trace : trace[k].op = op /\ trace[k].folder = folders[p]}

Count(op, p) == Cardinality(Entries(op, p))

\* the iteration of position p has run to its end
Finished(p) == i > p \/ pc = "done"

HasSource(p) == srcFs[folders[p]].exists

LastEntry == trace[Len(trace)]

\* some call raised or never returned
Faulted == \E k \in DOMAIN trace : trace[k].outcome # "returned"

\* ---------------------------------------------------------------- claims

\* C1: the calls and printed lines occur in list order: an entry for the
\* folder at a later position never precedes an entry for the folder at an
\* earlier position, and inside one folder the entries follow the order of
\* the statements (init, copy, print, push, POST, report).
\* (Before is a strict order, so holding between neighbours it holds between
\* any two entries.)
Before(x, y) ==
    \/ PosOf(x.folder) < PosOf(y.folder)
    \/ /\ x.folder = y.folder
       /\ Rank(x.op) < Rank(y.op)

C1_ListOrder ==
    \A k \in DOMAIN trace : k > 1 => Before(trace[k - 1], trace[k])

\* a finished run in which a folder with recipes was followed by another one
C1_Witness ==
    /\ pc = "done"
    /\ HasSource(1)
    /\ Count("push", 1) = 1
    /\ Count("post", 2) = 1
    /\ Len(trace) >= 2 * Len(folders)

\* C2: for a folder without a source directory there is never a copy nor a
\* push, its init has been issued once the existence test was made and its
\* POST has been issued once the iteration is at or past the report; and a
\* push is only ever issued after a copy of the same folder has returned.
C2_NoSourceNoCopyNoPush ==
    /\ \A p \in Positions :
        ~HasSource(p) =>
            /\ Count("copy", p) = 0
            /\ Count("push", p) = 0
            /\ (i > p \/ (i = p /\ pc \notin {"init", "hung"})) => Count("init", p) = 1
            /\ (Finished(p) \/ (i = p /\ pc = "report")) => Count("post", p) = 1
    /\ \A k \in DOMAIN trace :
        trace[k].op = "push" =>
            \E j \in 1..(k - 1) :
                /\ trace[j].op = "copy"
                /\ trace[j].folder = trace[k].folder
                /\ trace[j].outcome = "returned"

\* a finished run with a folder that has no source directory and one that has
C2_Witness ==
    /\ pc = "done"
    /\ \E p, q \in Positions :
        /\ ~HasSource(p) /\ Count("init", p) = 1 /\ Count("post", p) = 1
        /\ HasSource(q) /\ Count("push", q) = 1

\* C3: a copy that returns is a merge: every file of the source is in the
\* destination with the source's content, every other file of the
\* destination is unchanged, and the destination directory exists.
C3_MergeCopy ==
    [][(pc = "copy" /\ pc' = "print_copied") =>
        /\ cwdFs'[folder].exists
        /\ \A f \in Files :
            /\ srcFs[folder].files[f] # 0 =>
                   cwdFs'[folder].files[f] = srcFs[folder].files[f]
            /\ srcFs[folder].files[f] = 0 =>
                   cwdFs'[folder].files[f] = cwdFs[folder].files[f]
        /\ \A n \in FolderNames : n # folder => cwdFs'[n] = cwdFs[n]
      ]_vars

\* after a copy: a file X that only the destination had, next to a file Y
\* that came from the source
C3_Witness ==
    /\ pc = "print_copied"
    /\ \E x, y \in Files :
        /\ srcFs[folder].files[x] = 0
        /\ cwdFs[folder].files[x] # 0
        /\ srcFs[folder].files[y] # 0
        /\ cwdFs[folder].files[y] = srcFs[folder].files[y]

\* a returned call of kind op for position p with a result satisfying the test
NonZero(op, p) == \E k \in Entries(op, p) : trace[k].outcome = "returned" /\ trace[k].res # 0

\* no entry of the history is for a folder after position p
NothingAfter(p) == \A j \in DOMAIN trace : PosOf(trace[j].folder) <= p

\* C4: a non-zero exit of init never stops the run: until the next call the
\* script stands at the existence test of the same folder, or at the copy
\* or the POST the test leads to, with no exit status, and once the iteration of such a folder is over its POST was
\* issued, and its copy and push too when the source directory exists; a
\* run that ended normally has processed every folder after it.
C4_InitFailureIgnored ==
    /\ (trace # <<>> /\ LastEntry.op = "init" /\ LastEntry.outcome = "returned"
            /\ LastEntry.res # 0) =>
           /\ pc \in {"exists", "copy", "post"}
           /\ pc = "copy" => srcFs[folder].exists
           /\ pc = "post" => ~srcFs[folder].exists
           /\ exitStatus = <<>>
           /\ folder = LastEntry.folder
    /\ \A p \in Positions :
        NonZero("init", p) =>
            /\ Finished(p) =>
                /\ Count("post", p) = 1
                /\ HasSource(p) => Count("copy", p) = 1 /\ Count("push", p) = 1
            /\ pc = "done" =>
                \A q \in Positions :
                    q > p => Count("init", q) = 1 /\ Count("post", q) = 1

\* a finished run whose first folder has recipes and whose init failed
C4_Witness ==
    /\ pc = "done"
    /\ HasSource(1)
    /\ NonZero("init", 1)
    /\ Count("push", 1) = 1
    /\ Count("post", 1) = 1
    /\ Count("init", 2) = 1

\* C5: every response of the POST is followed at once by the report line of
\* the same folder with the returned status code, there is never a second
\* report line for that folder, and after a report line, whatever the
\* status, the script stands at the init of the next folder or has ended
\* with exit status 0.
C5_StatusReported ==
    /\ \A p \in Positions :
        \A k \in Entries("post", p) :
            trace[k].outcome = "returned" =>
                /\ Count("report", p) <= 1
                /\ \A r \in Entries("report", p) : trace[r].res = trace[k].res
                /\ k < Len(trace) =>
                       /\ trace[k + 1].op = "report"
                       /\ trace[k + 1].folder = folders[p]
                /\ k = Len(trace) =>
                       /\ pc = "report"
                       /\ response = trace[k].res
                       /\ exitStatus = <<>>
                /\ Finished(p) => Count("report", p) = 1
    /\ (trace # <<>> /\ LastEntry.op = "report") =>
           \/ /\ pc = "init"
              /\ exitStatus = <<>>
              /\ i = PosOf(LastEntry.folder) + 1
           \/ /\ pc = "done"
              /\ exitStatus = Exited(0)
              /\ PosOf(LastEntry.folder) = Len(folders)

\* a finished run that saw a 2xx, a 4xx and a 5xx status
C5_Witness ==
    /\ pc = "done"
    /\ \E a, b, c \in DOMAIN trace :
        /\ trace[a].op = "report" /\ trace[a].res = 201
        /\ trace[b].op = "report" /\ trace[b].res = 409
        /\ trace[c].op = "report" /\ trace[c].res = 500
        /\ a < b

\* C6: a POST that raised is the last thing the run did: the process has
\* exited with status 1, there is no report line for that folder and no
\* entry at all for a later folder.
C6_PostExceptionAborts ==
    \A k \in DOMAIN trace :
        (trace[k].op = "post" /\ trace[k].outcome = "raised") =>
            /\ k = Len(trace)
            /\ pc = "aborted"
            /\ exitStatus = Exited(1)
            /\ Count("report", PosOf(trace[k].folder)) = 0
            /\ NothingAfter(PosOf(trace[k].folder))

\* the POST of the second folder raised after the first folder was reported
C6_Witness ==
    /\ pc = "aborted"
    /\ Count("report", 1) = 1
    /\ LastEntry.op = "post"
    /\ LastEntry.outcome = "raised"
    /\ LastEntry.folder = folders[2]

\* C7: a non-zero exit of push is not observed: right after it the script
\* stands at the POST of the same folder with no exit status, and once the
\* iteration of such a folder is over its POST and its report line were
\* issued; a run that ended normally has processed every folder after it.
C7_PushFailureUnobserved ==
    /\ (trace # <<>> /\ LastEntry.op = "push" /\ LastEntry.outcome = "returned"
            /\ LastEntry.res # 0) =>
           /\ pc = "post"
           /\ exitStatus = <<>>
           /\ folder = LastEntry.folder
    /\ \A p \in Positions :
        NonZero("push", p) =>
            /\ Finished(p) => Count("post", p) = 1 /\ Count("report", p) = 1
            /\ pc = "done" =>
                \A q \in Positions :
                    q > p => Count("init", q) = 1 /\ Count("post", q) = 1
                                 /\ Count("report", q) = 1

\* a finished run in which the push of the first folder failed
C7_Witness ==
    /\ pc = "done"
    /\ NonZero("push", 1)
    /\ Count("post", 1) = 1
    /\ Count("report", 1) = 1
    /\ Count("init", 2) = 1

\* C8: a copy that raised is the last thing the run did: the process has
\* exited with status 1, neither push nor POST was issued for that folder
\* and nothing for a later one; and the step that raises undoes nothing:
\* the history is kept, the other project directories are untouched, and
\* the directory of that folder, when it existed, still exists with every
\* file it had.
C8_CopyExceptionAborts ==
    /\ [](\A k \in DOMAIN trace :
            (trace[k].op = "copy" /\ trace[k].outcome = "raised") =>
                /\ k = Len(trace)
                /\ pc = "aborted"
                /\ exitStatus = Exited(1)
                /\ Count("push", PosOf(trace[k].folder)) = 0
                /\ Count("post", PosOf(trace[k].folder)) = 0
                /\ Count("init", PosOf(trace[k].folder)) = 1
                /\ NothingAfter(PosOf(trace[k].folder)))
    /\ [][(pc = "copy" /\ pc' = "aborted") =>
            /\ SubSeq(trace', 1, Len(trace)) = trace
            /\ \A n \in FolderNames : n # folder => cwdFs'[n] = cwdFs[n]
            /\ cwdFs[folder].exists => cwdFs'[folder].exists
            /\ \A f \in Files :
                cwdFs[folder].files[f] # 0 => cwdFs'[folder].files[f] # 0
         ]_vars

\* the copy of the second folder raised; the scaffolds of the first and of
\* the second folder are still there
C8_Witness ==
    /\ pc = "aborted"
    /\ LastEntry.op = "copy"
    /\ LastEntry.outcome = "raised"
    /\ LastEntry.folder = folders[2]
    /\ cwdFs[folders[1]].exists
    /\ cwdFs[folders[2]].exists
    /\ Count("report", 1) = 1

\* C9: nothing is retried: for every position there is at most one init,
\* one copy, one push and one POST in the history.
C9_NoRetry ==
    \A p \in Positions :
        \A op \in {"init", "copy", "push", "post"} : Count(op, p) <= 1

\* a finished run in which an init failed, a push failed and a POST was
\* answered with an error status
C9_Witness ==
    /\ pc = "done"
    /\ \E p, q, r \in Positions :
        /\ NonZero("init", p)
        /\ NonZero("push", q)
        /\ \E k \in Entries("post", r) : trace[k].res >= 400

\* the run has ended with exit status 0 having issued exactly one init, one
\* POST and one report line per folder, and one copy, one copy line and one
\* push for exactly the folders that have a source directory
CleanExit ==
    /\ pc = "done"
    /\ exitStatus = Exited(0)
    /\ \A p \in Positions :
        /\ Count("init", p) = 1
        /\ Count("post", p) = 1
        /\ Count("report", p) = 1
        /\ Count("copy", p) = (IF HasSource(p) THEN 1 ELSE 0)
        /\ Count("push", p) = (IF HasSource(p) THEN 1 ELSE 0)

\* C10: unless some call raises or never returns, the run eventually ends
\* with exit status 0 having issued exactly one init, one POST and one
\* report line per folder and one copy and one push for exactly the folders
\* whose source directory exists.
C10_Terminates == <>(Faulted \/ CleanExit)

\* a clean end of a run over folders with and without recipes
C10_Witness ==
    /\ pc = "done"
    /\ ~Faulted
    /\ exitStatus = Exited(0)
    /\ \E p, q \in Positions : HasSource(p) /\ ~HasSource(q)
    /\ Len(trace) > 3 * Len(folders)

====
